---------------------------- MODULE Spec2Model ----------------------------
(***************************************************************************)
(* Job supervision of screens-sync (src/main.py): the jobs table, the      *)
(* global active_process handle, the request handlers (trigger_sync,       *)
(* cancel_sync, clear_history), the background task run_rclone_sync, one   *)
(* instance per started job, stepped statement by statement, the rclone    *)
(* children, and a server restart followed by init_db.                     *)
(***************************************************************************)
EXTENDS Integers, Sequences, FiniteSets, TLC

VARIABLES
    jobs,            \* the jobs table: id -> [start_time, end_time, status, logs]
    nextId,          \* sqlite AUTOINCREMENT: the next id the table hands out
    active_process,  \* the module global: a child id, or None
    children,        \* the Popen objects of this server lifetime, by child id
    runs,            \* the run_rclone_sync tasks of this lifetime, by job id
    response         \* the body of the last response a handler returned

vars == <<jobs, nextId, active_process, children, runs, response>>

-----------------------------------------------------------------------------
(* Bounds *)

\* start() creates at most MaxJobs records over the life of the database.
MaxJobs == 2

\* A child writes at most MaxLines lines to its output.
MaxLines == 1

\* The status queries are checked on tables of at most MaxStored records.
MaxStored == 25

-----------------------------------------------------------------------------
(* Values *)

\* active_process = None
None == 0

NULL == "NULL"

\* datetime.now().isoformat(): the value is abstracted to "a timestamp".
Now == "T"

TerminalStatuses == {"COMPLETED", "FAILED", "CANCELLED"}

\* signal.SIGTERM, the signal cancel_sync sends.
SIGTERM == 15

\* Raw lines a child can write (without the newline).
RawLines == {"", " b "}

\* str.strip() on the raw lines above.
Strip(line) ==
    CASE line = "" -> ""
      [] line = " b " -> "b"

\* Popen.returncode of a child that ended on its own or was killed from
\* outside: exit code 0, exit code 1, killed by signal 9 (SIGKILL).
OwnStatuses == {0, 1, -9}

-----------------------------------------------------------------------------
(* The logs column: text, kept as a sequence of pieces.  A piece is either *)
(* the newline or a run of characters without a newline; ts tells whether   *)
(* the run starts with a '%H:%M:%S: ' stamp.                                *)

NL == [ts |-> FALSE, text |-> "\n"]

Piece(stamped, s) == [ts |-> stamped, text |-> s]

\* f"Job Started: {SOURCE_REMOTE} -> {DEST_REMOTE}\n"
initial_log == <<Piece(FALSE, "Job Started"), NL>>

\* f"{datetime.now().strftime('%H:%M:%S')}: {new_log_line}\n"
LogLine(new_log_line) == <<Piece(TRUE, new_log_line), NL>>

\* '\n' || ? || ': [SYSTEM] Sync was interrupted by a server restart.'
RestartNote == <<NL, Piece(TRUE, "[SYSTEM] Sync was interrupted by a server restart.")>>

\* f"Exit code: {active_process.returncode}"
ExitCodeText(rc) == "Exit code: " \o rc

CriticalText == "CRITICAL ERROR"

\* str() of a returncode attribute: an integer, or None before wait() returned.
ReturncodeStr(c) ==
    IF c.reaped THEN ToString(c.status) ELSE "None"

\* The text split at newlines: the lines of the logs, a trailing newline
\* ending the last line rather than opening an empty one.
RECURSIVE SplitLines(_, _)
SplitLines(text, cur) ==
    IF text = <<>> THEN (IF cur = <<>> THEN <<>> ELSE <<cur>>)
    ELSE IF Head(text) = NL THEN <<cur>> \o SplitLines(Tail(text), <<>>)
    ELSE SplitLines(Tail(text), Append(cur, Head(text)))

Lines(text) == SplitLines(text, <<>>)

-----------------------------------------------------------------------------
(* Job Store *)

RunningIds == {id \in DOMAIN jobs : jobs[id].status = "RUNNING"}

\* SELECT id FROM jobs WHERE status = 'RUNNING' ... fetchone(): the first row
\* in rowid order, or None.
FetchRunning ==
    IF RunningIds = {} THEN None
    ELSE CHOOSE id \in RunningIds : \A other \in RunningIds : id <= other

\* INSERT INTO jobs (start_time, status, logs): end_time stays NULL.
NewJob ==
    [start_time |-> Now, end_time |-> NULL, status |-> "RUNNING",
     logs |-> initial_log]

\* log_job_start(): the table after the insert; the new row's id is nextId.
log_job_start ==
    [id \in DOMAIN jobs \cup {nextId} |->
        IF id = nextId THEN NewJob ELSE jobs[id]]

\* Mutant of UpdatedRow: the end_time assignment is left out.
UpdatedRow_NoEndTime(row, new_log_line, status) ==
    LET r1 == IF new_log_line # ""
              THEN [row EXCEPT !.logs = @ \o LogLine(new_log_line)]
              ELSE row
    IN  IF status # "" THEN [r1 EXCEPT !.status = status] ELSE r1

\* The row after UPDATE jobs SET ... of log_job_update; an empty line and an
\* empty status add nothing.
UpdatedRow(row, new_log_line, status) ==
    LET r1 == IF new_log_line # ""
              THEN [row EXCEPT !.logs = @ \o LogLine(new_log_line)]
              ELSE row
        r2 == IF status # ""
              THEN [r1 EXCEPT !.status = status]
              ELSE r1
    IN  IF status \in TerminalStatuses
        THEN [r2 EXCEPT !.end_time = Now]
        ELSE r2

\* Mutant of log_job_update: INSERT OR REPLACE, so a deleted record comes
\* back.
log_job_update_Upsert(job_id, new_log_line, status) ==
    [id \in DOMAIN jobs \cup {job_id} |->
        IF id = job_id
        THEN UpdatedRow(IF id \in DOMAIN jobs THEN jobs[id] ELSE NewJob,
                        new_log_line, status)
        ELSE jobs[id]]

\* log_job_update(job_id, new_log_line, status): the table afterwards; WHERE
\* id = ? matches no row once the record was deleted.
log_job_update(job_id, new_log_line, status) ==
    [id \in DOMAIN jobs |->
        IF id = job_id THEN UpdatedRow(jobs[id], new_log_line, status)
        ELSE jobs[id]]

\* Mutant of Orphaned: the note is appended but the status is left as it is.
Orphaned_KeepsStatus(row) ==
    [row EXCEPT !.logs = @ \o RestartNote]

\* The row after init_db's UPDATE ... WHERE status = 'RUNNING'.
Orphaned(row) ==
    [row EXCEPT !.status = "FAILED",
                !.logs = @ \o RestartNote,
                !.end_time = Now]

\* Mutant of init_db: the UPDATE has no WHERE clause.
init_db_NoWhere ==
    [id \in DOMAIN jobs |-> Orphaned(jobs[id])]

\* init_db(): the table afterwards.
init_db ==
    [id \in DOMAIN jobs |->
        IF jobs[id].status = "RUNNING" THEN Orphaned(jobs[id]) ELSE jobs[id]]

-----------------------------------------------------------------------------
(* Children *)

ChildIds == DOMAIN children

\* subprocess.Popen(...): a running child with no output yet.  A run launches
\* at most one child, so the child is named by the job id of its run.
NewChild ==
    [emitted |-> <<>>, nread |-> 0, alive |-> TRUE,
     status |-> 0, reaped |-> FALSE, sigterm |-> FALSE]

\* The Popen objects still in use once the global is ap and the tasks are rs:
\* the one the global names, the ones a task iterates over, and the one of
\* each task that has not returned.  The others are garbage.
Collect(ch, ap, rs) ==
    [c \in {d \in DOMAIN ch : \/ ap = d
                              \/ rs[d].pc # "done"
                              \/ \E k \in DOMAIN rs : rs[k].stream = d} |-> ch[c]]

\* The child writes one more line.
ChildEmit(c) ==
    /\ children[c].alive
    /\ Len(children[c].emitted) < MaxLines
    /\ \E line \in RawLines :
        children' = [children EXCEPT ![c].emitted = Append(@, line)]
    /\ UNCHANGED <<jobs, nextId, active_process, runs, response>>

\* The child ends and its output closes: on its own, killed from outside, or
\* by the SIGTERM cancel_sync delivered.
ChildExit(c) ==
    /\ children[c].alive
    /\ \E st \in OwnStatuses \cup (IF children[c].sigterm THEN {-SIGTERM} ELSE {}) :
        children' = [children EXCEPT ![c].alive = FALSE, ![c].status = st,
                                     ![c].sigterm = FALSE]
    /\ UNCHANGED <<jobs, nextId, active_process, runs, response>>

-----------------------------------------------------------------------------
(* run_rclone_sync(job_id), one step per statement that reads or writes    *)
(* the global or the table                                                  *)

\* The task's position and its locals: the iterator over a child's stdout
\* (the child's id) while the loop runs, final_status once it is assigned.
NewRun == [pc |-> "queued", stream |-> None, final_status |-> ""]

\* An exception inside the try block: control goes to the except clause.
Raise(j) ==
    runs' = [runs EXCEPT ![j] = [pc |-> "except", stream |-> None, final_status |-> ""]]

\* active_process = subprocess.Popen(...): the launch succeeds and the
\* global is assigned.
Launch(j) ==
    /\ runs[j].pc = "queued"
    /\ active_process' = j
    /\ runs' = [runs EXCEPT ![j].pc = "loop"]
    /\ children' = Collect([c \in DOMAIN children \cup {j} |->
                                IF c = j THEN NewChild ELSE children[c]],
                            active_process', runs')
    /\ UNCHANGED <<jobs, nextId, response>>

\* subprocess.Popen(...) raises (no executable): the global keeps its value.
LaunchFails(j) ==
    /\ runs[j].pc = "queued"
    /\ Raise(j)
    /\ UNCHANGED <<jobs, nextId, active_process, children, response>>

\* active_process = subprocess.Popen(...)
Spawn(j) == Launch(j) \/ LaunchFails(j)

\* for line in active_process.stdout: the global is read once, here.
BeginLoop(j) ==
    /\ runs[j].pc = "loop"
    /\ IF active_process = None
       THEN Raise(j)
       ELSE runs' = [runs EXCEPT ![j].pc = "read", ![j].stream = active_process]
    /\ UNCHANGED <<jobs, nextId, active_process, children, response>>

\* One iteration: the next line of the stream, stripped and appended.
ReadLine(j) ==
    LET s == runs[j].stream
        c == children[s]
    IN  /\ runs[j].pc = "read"
        /\ c.nread < Len(c.emitted)
        /\ children' = [children EXCEPT ![s].nread = @ + 1]
        /\ jobs' = log_job_update(j, Strip(c.emitted[c.nread + 1]), "")
        /\ UNCHANGED <<nextId, active_process, runs, response>>

\* The stream is at end of file: the loop ends.
EndLoop(j) ==
    LET c == children[runs[j].stream]
    IN  /\ runs[j].pc = "read"
        /\ c.nread = Len(c.emitted)
        /\ ~c.alive
        /\ runs' = [runs EXCEPT ![j].pc = "wait", ![j].stream = None]
        /\ children' = Collect(children, active_process, runs')
        /\ UNCHANGED <<jobs, nextId, active_process, response>>

\* Reading the stream raises (a decoding error, an I/O error).
ReadError(j) ==
    /\ runs[j].pc = "read"
    /\ Raise(j)
    /\ children' = Collect(children, active_process, runs')
    /\ UNCHANGED <<jobs, nextId, active_process, response>>

\* active_process.wait(): on the object the global names now.
Wait(j) ==
    /\ runs[j].pc = "wait"
    /\ IF active_process = None
       THEN Raise(j) /\ UNCHANGED children
       ELSE /\ ~children[active_process].alive
            /\ children' = [children EXCEPT ![active_process].reaped = TRUE]
            /\ runs' = [runs EXCEPT ![j].pc = "check0"]
    /\ UNCHANGED <<jobs, nextId, active_process, response>>

\* if active_process.returncode == 0
CheckZero(j) ==
    /\ runs[j].pc = "check0"
    /\ IF active_process = None
       THEN Raise(j)
       ELSE LET c == children[active_process]
            IN  IF c.reaped /\ c.status = 0
                THEN runs' = [runs EXCEPT ![j].pc = "write",
                                          ![j].final_status = "COMPLETED"]
                ELSE runs' = [runs EXCEPT ![j].pc = "checkneg"]
    /\ UNCHANGED <<jobs, nextId, active_process, children, response>>

\* elif active_process.returncode < 0 ... else; None < 0 raises TypeError.
CheckNegative(j) ==
    /\ runs[j].pc = "checkneg"
    /\ IF active_process = None \/ ~children[active_process].reaped
       THEN Raise(j)
       ELSE runs' = [runs EXCEPT ![j].pc = "write",
                        ![j].final_status =
                            IF children[active_process].status < 0
                            THEN "CANCELLED" ELSE "FAILED"]
    /\ UNCHANGED <<jobs, nextId, active_process, children, response>>

\* Mutant of WriteFinal: the exit code line is written without the status.
WriteFinal_NoStatus(j) ==
    /\ runs[j].pc = "write"
    /\ IF active_process = None
       THEN Raise(j) /\ UNCHANGED jobs
       ELSE /\ jobs' = log_job_update(j,
                          ExitCodeText(ReturncodeStr(children[active_process])),
                          "")
            /\ runs' = [runs EXCEPT ![j].pc = "finally", ![j].final_status = ""]
    /\ UNCHANGED <<nextId, active_process, children, response>>

\* log_job_update(job_id, f"Exit code: {active_process.returncode}", final_status)
WriteFinal(j) ==
    /\ runs[j].pc = "write"
    /\ IF active_process = None
       THEN Raise(j) /\ UNCHANGED jobs
       ELSE /\ jobs' = log_job_update(j,
                          ExitCodeText(ReturncodeStr(children[active_process])),
                          runs[j].final_status)
            /\ runs' = [runs EXCEPT ![j].pc = "finally", ![j].final_status = ""]
    /\ UNCHANGED <<nextId, active_process, children, response>>

\* Mutant of Except: the handler logs the error and sets no status.
Except_LogOnly(j) ==
    /\ runs[j].pc = "except"
    /\ jobs' = log_job_update(j, CriticalText, "")
    /\ runs' = [runs EXCEPT ![j].pc = "finally"]
    /\ UNCHANGED <<nextId, active_process, children, response>>

\* except Exception: log_job_update(job_id, "CRITICAL ERROR: ...", "FAILED")
Except(j) ==
    /\ runs[j].pc = "except"
    /\ jobs' = log_job_update(j, CriticalText, "FAILED")
    /\ runs' = [runs EXCEPT ![j].pc = "finally"]
    /\ UNCHANGED <<nextId, active_process, children, response>>

\* Mutant of Finally: the task returns and leaves the global as it is.
Finally_KeepsHandle(j) ==
    /\ runs[j].pc = "finally"
    /\ active_process' = active_process
    /\ runs' = [runs EXCEPT ![j].pc = "done"]
    /\ children' = Collect(children, active_process, runs')
    /\ UNCHANGED <<jobs, nextId, response>>

\* finally: active_process = None
Finally(j) ==
    /\ runs[j].pc = "finally"
    /\ active_process' = None
    /\ runs' = [runs EXCEPT ![j].pc = "done"]
    /\ children' = Collect(children, None, runs')
    /\ UNCHANGED <<jobs, nextId, response>>

-----------------------------------------------------------------------------
(* Request handlers: each runs on the event loop without awaiting, so it   *)
(* is one step                                                              *)

\* Mutant of trigger_sync: no admission check.
trigger_sync_NoCheck ==
    /\ nextId <= MaxJobs
    /\ jobs' = log_job_start
    /\ nextId' = nextId + 1
    /\ runs' = [j \in DOMAIN runs \cup {nextId} |->
                   IF j = nextId THEN NewRun ELSE runs[j]]
    /\ response' = [op |-> "sync", status |-> "started", job_id |-> nextId]
    /\ UNCHANGED <<active_process, children>>

\* Mutant of trigger_sync: a rejected request still schedules the task for
\* the job it found.
trigger_sync_Reschedules ==
    LET active == FetchRunning
    IN  IF active # None
        THEN /\ response' = [op |-> "sync", status |-> "ignored", job_id |-> active]
             /\ runs' = [j \in DOMAIN runs \cup {active} |->
                            IF j = active THEN NewRun ELSE runs[j]]
             /\ UNCHANGED <<jobs, nextId, active_process, children>>
        ELSE /\ nextId <= MaxJobs
             /\ jobs' = log_job_start
             /\ nextId' = nextId + 1
             /\ runs' = [j \in DOMAIN runs \cup {nextId} |->
                            IF j = nextId THEN NewRun ELSE runs[j]]
             /\ response' = [op |-> "sync", status |-> "started", job_id |-> nextId]
             /\ UNCHANGED <<active_process, children>>

\* POST /sync
trigger_sync ==
    LET active == FetchRunning
    IN  IF active # None
        THEN /\ response' = [op |-> "sync", status |-> "ignored", job_id |-> active]
             /\ UNCHANGED <<jobs, nextId, active_process, children, runs>>
        ELSE /\ nextId <= MaxJobs
             /\ jobs' = log_job_start
             /\ nextId' = nextId + 1
             /\ runs' = [j \in DOMAIN runs \cup {nextId} |->
                            IF j = nextId THEN NewRun ELSE runs[j]]
             /\ response' = [op |-> "sync", status |-> "started", job_id |-> nextId]
             /\ UNCHANGED <<active_process, children>>

\* Mutant of cancel_sync: the handler also marks the running record
\* CANCELLED.
cancel_sync_MarksCancelled ==
    /\ IF active_process = None
       THEN /\ response' = [op |-> "cancel", status |-> "ignored", job_id |-> None]
            /\ UNCHANGED <<children, jobs>>
       ELSE IF children[active_process].reaped
       THEN /\ response' = [op |-> "cancel", status |-> "error", job_id |-> None]
            /\ UNCHANGED <<children, jobs>>
       ELSE /\ children' = [children EXCEPT ![active_process].sigterm =
                                @ \/ children[active_process].alive]
            /\ jobs' = log_job_update(active_process, "", "CANCELLED")
            /\ response' = [op |-> "cancel", status |-> "success", job_id |-> None]
    /\ UNCHANGED <<nextId, active_process, runs>>

\* POST /cancel: os.killpg(os.getpgid(pid), SIGTERM); getpgid raises once
\* the child was waited for.
cancel_sync ==
    /\ IF active_process = None
       THEN /\ response' = [op |-> "cancel", status |-> "ignored", job_id |-> None]
            /\ UNCHANGED children
       ELSE IF children[active_process].reaped
       THEN /\ response' = [op |-> "cancel", status |-> "error", job_id |-> None]
            /\ UNCHANGED children
       ELSE /\ children' = [children EXCEPT ![active_process].sigterm =
                                @ \/ children[active_process].alive]
            /\ response' = [op |-> "cancel", status |-> "success", job_id |-> None]
    /\ UNCHANGED <<jobs, nextId, active_process, runs>>

\* POST /clear-history: DELETE FROM jobs; AUTOINCREMENT keeps counting.
clear_history ==
    /\ jobs' = <<>>
    /\ response' = [op |-> "clear-history", status |-> "success", job_id |-> None]
    /\ UNCHANGED <<nextId, active_process, children, runs>>

\* The server process ends at any point and a new one starts: the tasks and
\* the global of the old process are gone, and on_startup runs init_db
\* before any request.
Restart ==
    /\ jobs' = init_db
    /\ active_process' = None
    /\ children' = <<>>
    /\ runs' = <<>>
    /\ response' = [op |-> "startup", status |-> "online", job_id |-> None]
    /\ UNCHANGED nextId

-----------------------------------------------------------------------------

Init ==
    /\ jobs = <<>>
    /\ nextId = 1
    /\ active_process = None
    /\ children = <<>>
    /\ runs = <<>>
    /\ response = [op |-> "startup", status |-> "online", job_id |-> None]

Supervisor(j) ==
    \/ Spawn(j)
    \/ BeginLoop(j)
    \/ ReadLine(j)
    \/ EndLoop(j)
    \/ ReadError(j)
    \/ Wait(j)
    \/ CheckZero(j)
    \/ CheckNegative(j)
    \/ WriteFinal(j)
    \/ Except(j)
    \/ Finally(j)

Next ==
    \/ trigger_sync
    \/ cancel_sync
    \/ clear_history
    \/ Restart
    \/ \E j \in DOMAIN runs : Supervisor(j)
    \/ \E c \in ChildIds : ChildEmit(c)
    \/ \E c \in ChildIds : ChildExit(c)

Spec == Init /\ [][Next]_vars

-----------------------------------------------------------------------------
(* GET /status, on its own: a pure query of the table *)

\* LIMIT 20 of the history query.
HistoryLimit == 20

\* dict(row): the row with its id.
RowDict(id) ==
    [id |-> id, start_time |-> jobs[id].start_time, end_time |-> jobs[id].end_time,
     status |-> jobs[id].status, logs |-> jobs[id].logs]

\* {"status": "IDLE"}
IdleBody == [status |-> "IDLE"]

MaxId(ids) == CHOOSE m \in ids : \A other \in ids : other <= m

MinId(ids) == CHOOSE m \in ids : \A other \in ids : m <= other

\* Mutant of OrderByIdDesc: ORDER BY id ASC.
RECURSIVE OrderByIdAsc(_)
OrderByIdAsc(ids) ==
    IF ids = {} THEN <<>>
    ELSE <<MinId(ids)>> \o OrderByIdAsc(ids \ {MinId(ids)})

\* ORDER BY id DESC
RECURSIVE OrderByIdDesc(_)
OrderByIdDesc(ids) ==
    IF ids = {} THEN <<>>
    ELSE <<MaxId(ids)>> \o OrderByIdDesc(ids \ {MaxId(ids)})

\* LIMIT n
Limit(seq, n) == SubSeq(seq, 1, IF Len(seq) < n THEN Len(seq) ELSE n)

\* SELECT * FROM jobs ORDER BY id DESC LIMIT n ... fetchall()
SelectLatest(n) ==
    LET ids == Limit(OrderByIdDesc(DOMAIN jobs), n)
    IN  [i \in 1..Len(ids) |-> RowDict(ids[i])]

\* The body get_status(history) returns.
StatusBody(history) ==
    IF history THEN SelectLatest(HistoryLimit)
    ELSE IF SelectLatest(1) = <<>> THEN IdleBody
    ELSE SelectLatest(1)[1]

\* GET /status?history=...
get_status(history) ==
    /\ response' = [op |-> "status", history |-> history, body |-> StatusBody(history)]
    /\ UNCHANGED <<jobs, nextId, active_process, children, runs>>

\* A finished record, as a run leaves it.
StoredRow(id) ==
    [start_time |-> Now, end_time |-> Now,
     status |-> IF id % 2 = 0 THEN "COMPLETED" ELSE "FAILED",
     logs |-> initial_log \o LogLine(ExitCodeText(IF id % 2 = 0 THEN "0" ELSE "1"))]

\* The id sets of the tables the queries are tried on: the runs of
\* consecutive ids up to MaxStored, whole or with their second id deleted.
StoredIdSets ==
    {{}} \cup {lo..hi : lo \in 1..MaxStored, hi \in 1..MaxStored}
         \cup {(lo..hi) \ {lo + 1} : lo \in 1..MaxStored, hi \in 1..MaxStored}

\* An idle server over any of these tables.
InitStatus ==
    /\ \E ids \in StoredIdSets : jobs = [id \in ids |-> StoredRow(id)]
    /\ nextId = MaxStored + 1
    /\ active_process = None
    /\ children = <<>>
    /\ runs = <<>>
    /\ response = [op |-> "startup", status |-> "online", job_id |-> None]

NextStatus ==
    \/ get_status(TRUE)
    \/ get_status(FALSE)
    \/ clear_history

SpecStatus == InitStatus /\ [][NextStatus]_vars

\* The steps of run_rclone_sync when nothing fails from outside: the launch
\* succeeds and reading the stream does not raise.
SupervisorNoFaults(j) ==
    \/ Launch(j)
    \/ BeginLoop(j)
    \/ ReadLine(j)
    \/ EndLoop(j)
    \/ Wait(j)
    \/ CheckZero(j)
    \/ CheckNegative(j)
    \/ WriteFinal(j)
    \/ Except(j)
    \/ Finally(j)

\* One server lifetime of start() and cancel() requests only, with no launch
\* failure and no read error.
NextNoFaults ==
    \/ trigger_sync
    \/ cancel_sync
    \/ \E j \in DOMAIN runs : SupervisorNoFaults(j)
    \/ \E c \in ChildIds : ChildEmit(c)
    \/ \E c \in ChildIds : ChildExit(c)

SpecNoFaults == Init /\ [][NextNoFaults]_vars

\* The server without cancel() requests.  cancel_sync writes neither the
\* table, nor the global, nor a task's position: it only sends a signal, and
\* a child ended by a signal is among the outcomes of ChildExit.
NextNoCancel ==
    \/ trigger_sync
    \/ clear_history
    \/ Restart
    \/ \E j \in DOMAIN runs : Supervisor(j)
    \/ \E c \in ChildIds : ChildEmit(c)
    \/ \E c \in ChildIds : ChildExit(c)

\* That server with its scheduling: a background task that can take a step
\* eventually takes one (the thread pool runs it to its end), and a child
\* that is alive eventually closes its output and exits.
FairSpec ==
    /\ Init /\ [][NextNoCancel]_vars
    /\ \A j \in 1..MaxJobs : WF_vars(j \in DOMAIN runs /\ Supervisor(j))
    /\ \A c \in 1..MaxJobs : WF_vars(c \in ChildIds /\ ChildExit(c))

-----------------------------------------------------------------------------
(* Helpers of the properties *)

IsTerminal(row) == row.status \in TerminalStatuses

\* The runs that have launched a child and have not returned yet.
Supervised == {j \in DOMAIN runs : j \in DOMAIN children /\ runs[j].pc # "done"}

\* The last line of a record's logs.
LastLine(row) == Lines(row.logs)[Len(Lines(row.logs))]

IsRestartLine(line) == line = <<RestartNote[2]>>

-----------------------------------------------------------------------------
(* C1 *)

\* C1: in every reachable state at most one Job Record has status RUNNING,
\* whatever the interleaving of start, cancel, clear-history, supervisor
\* steps and restarts.
C1_AtMostOneRunning == Cardinality(RunningIds) <= 1

\* A second job is RUNNING while the first job's record is still in the
\* table and the first job's task has not returned.
C1_Witness ==
    /\ RunningIds = {2}
    /\ 1 \in DOMAIN jobs
    /\ 1 \in DOMAIN runs /\ runs[1].pc # "done"

-----------------------------------------------------------------------------
(* C2 *)

\* C2: a start() issued while a record is RUNNING returns Ignored with that
\* record's id, creates no record, schedules no supervisor run and leaves
\* every record as it was.
C2_RejectedStart ==
    [][(trigger_sync /\ RunningIds # {}) =>
          /\ response'.op = "sync"
          /\ response'.status = "ignored"
          /\ response'.job_id \in RunningIds
          /\ jobs' = jobs
          /\ nextId' = nextId
          /\ runs' = runs
          /\ children' = children
          /\ active_process' = active_process]_vars

\* A start() was just rejected with the id of the RUNNING record.
C2_Witness ==
    /\ response.op = "sync"
    /\ response.status = "ignored"
    /\ response.job_id \in RunningIds

-----------------------------------------------------------------------------
(* C3 *)

\* C3: within one server lifetime at most one supervised child is in
\* progress: never two runs that have each launched a child still alive.
C3_SingleChild ==
    Cardinality({j \in Supervised : children[j].alive}) <= 1

-----------------------------------------------------------------------------
(* C4 *)

\* C4: once a record is terminal, no step changes its status, end_time or
\* logs (so nothing is appended after the transition and the transition
\* happens once); the record can only disappear, and then by clear-history,
\* which empties the table.
C4_TerminalImmutable ==
    [][\A id \in DOMAIN jobs :
          IsTerminal(jobs[id]) =>
              IF id \in DOMAIN jobs'
              THEN jobs'[id] = jobs[id]
              ELSE jobs' = <<>> /\ response'.op = "clear-history"]_vars

\* Job 1 is terminal with its final line written, and job 2 has since been
\* started and has had a line of output appended.
C4_Witness ==
    /\ 1 \in DOMAIN jobs /\ IsTerminal(jobs[1])
    /\ 2 \in DOMAIN jobs /\ Len(Lines(jobs[2].logs)) >= 2
    /\ 1 \in DOMAIN runs /\ runs[1].pc = "done"

-----------------------------------------------------------------------------
(* C5 *)

\* C5: for every record, end_time is set if and only if the status is
\* terminal; a RUNNING record has no end_time.
C5_EndTimeIffTerminal ==
    \A id \in DOMAIN jobs : (jobs[id].end_time # NULL) <=> IsTerminal(jobs[id])

\* One record was failed by startup reconciliation, another one is RUNNING.
C5_Witness ==
    /\ \E id \in DOMAIN jobs :
          /\ jobs[id].status = "FAILED"
          /\ IsRestartLine(LastLine(jobs[id]))
          /\ jobs[id].end_time # NULL
    /\ \E id \in DOMAIN jobs :
          jobs[id].status = "RUNNING" /\ jobs[id].end_time = NULL

-----------------------------------------------------------------------------
(* C6 *)

\* The number of restart notes among the lines.
RECURSIVE CountRestartLines(_)
CountRestartLines(lines) ==
    IF lines = <<>> THEN 0
    ELSE (IF IsRestartLine(Head(lines)) THEN 1 ELSE 0) + CountRestartLines(Tail(lines))

IsPrefix(a, b) == Len(a) <= Len(b) /\ SubSeq(b, 1, Len(a)) = a

\* C6: a restart leaves every record that was RUNNING as FAILED with end_time
\* set and exactly one restart note appended after its earlier lines, and
\* leaves the other records alone; afterwards no record is RUNNING and the
\* handle is empty, this stays so until the first start(), and that start()
\* returns Started and creates a new RUNNING record.
C6_RestartReconciles ==
    /\ [][Restart =>
            /\ DOMAIN jobs' = DOMAIN jobs
            /\ \A id \in DOMAIN jobs :
                  IF jobs[id].status = "RUNNING"
                  THEN /\ jobs'[id].status = "FAILED"
                       /\ jobs'[id].end_time # NULL
                       /\ IsPrefix(Lines(jobs[id].logs), Lines(jobs'[id].logs))
                       /\ IsRestartLine(LastLine(jobs'[id]))
                       /\ CountRestartLines(Lines(jobs'[id].logs))
                            = CountRestartLines(Lines(jobs[id].logs)) + 1
                  ELSE jobs'[id] = jobs[id]
            /\ RunningIds' = {}
            /\ active_process' = None
            /\ DOMAIN runs' = {}]_vars
    /\ [](DOMAIN runs = {} => RunningIds = {} /\ active_process = None)
    /\ [][(trigger_sync /\ DOMAIN runs = {}) =>
            /\ response'.status = "started"
            /\ response'.job_id \notin DOMAIN jobs
            /\ RunningIds' = {response'.job_id}]_vars

\* A record was failed by a restart and the first start() after it was
\* accepted: its record is RUNNING and no other start() was accepted since.
C6_Witness ==
    /\ \E id \in DOMAIN jobs :
          /\ jobs[id].status = "FAILED"
          /\ IsRestartLine(LastLine(jobs[id]))
          /\ response.job_id > id
    /\ response.op = "sync" /\ response.status = "started"
    /\ RunningIds = {response.job_id}
    /\ DOMAIN runs = {response.job_id}

-----------------------------------------------------------------------------
(* C7 *)

\* The status the mapping is said to give for a child's termination status.
ClaimedStatus(st) ==
    IF st = 0 THEN "COMPLETED"
    ELSE IF st = -SIGTERM THEN "CANCELLED"
    ELSE "FAILED"

\* C7: the status a run writes after its child ended is COMPLETED exactly for
\* exit code 0, CANCELLED exactly for termination by SIGTERM, and FAILED for
\* every other status.
C7_ExitStatusMapping ==
    [][\A j \in DOMAIN runs :
          (WriteFinal(j) /\ active_process # None /\ j \in DOMAIN jobs) =>
              jobs'[j].status = ClaimedStatus(children[j].status)]_vars

-----------------------------------------------------------------------------
(* C8 *)

\* The non-empty stripped lines among the raw lines.
RECURSIVE NonEmptyLines(_)
NonEmptyLines(raw) ==
    IF raw = <<>> THEN <<>>
    ELSE (IF Strip(Head(raw)) # "" THEN <<Strip(Head(raw))>> ELSE <<>>)
            \o NonEmptyLines(Tail(raw))

\* The texts of the stamped lines of a record's logs.
RECURSIVE StampedTexts(_)
StampedTexts(text) ==
    IF text = <<>> THEN <<>>
    ELSE (IF Head(text).ts THEN <<Head(text).text>> ELSE <<>>)
            \o StampedTexts(Tail(text))

\* C8: while a job's supervisor and child are known, a terminal status on
\* the job's record means the child's output has closed and every non-empty
\* line the child wrote is in the logs, before the final line.
C8_CompleteLogsWhenTerminal ==
    \A j \in DOMAIN jobs \cap DOMAIN children :
        IsTerminal(jobs[j]) =>
            /\ ~children[j].alive
            /\ LET texts == StampedTexts(jobs[j].logs)
               IN  SubSeq(texts, 1, Len(texts) - 1) = NonEmptyLines(children[j].emitted)

-----------------------------------------------------------------------------
(* C9 *)

\* C9: an error raised in the try block is handled by the except clause,
\* which leaves the job's record, if it is still in the table, FAILED with
\* end_time set and a diagnostic line appended; no run is past its try block
\* with its record still RUNNING; and the run's last step empties the handle.
C9_ErrorsBecomeFailed ==
    /\ [][\A j \in DOMAIN runs :
            (j \in DOMAIN runs' /\ runs[j].pc = "except" /\ runs'[j].pc # "except") =>
                /\ runs'[j].pc = "finally"
                /\ DOMAIN jobs' = DOMAIN jobs
                /\ (j \in DOMAIN jobs) =>
                      /\ jobs'[j].status = "FAILED"
                      /\ jobs'[j].end_time # NULL
                      /\ jobs'[j].logs = jobs[j].logs \o LogLine(CriticalText)]_vars
    /\ [](\A j \in DOMAIN runs \cap DOMAIN jobs :
            runs[j].pc \in {"finally", "done"} => jobs[j].status # "RUNNING")
    /\ [][\A j \in DOMAIN runs :
            (j \in DOMAIN runs' /\ runs[j].pc = "finally" /\ runs'[j].pc # "finally") =>
                runs'[j].pc = "done" /\ active_process' = None]_vars

\* The launch failed (the run has no child), the except clause has run, and
\* the record is FAILED with the diagnostic as its last line.
C9_Witness ==
    \E j \in DOMAIN runs \cap DOMAIN jobs :
        /\ runs[j].pc = "finally"
        /\ j \notin DOMAIN children
        /\ jobs[j].status = "FAILED"
        /\ jobs[j].end_time # NULL
        /\ LastLine(jobs[j]) = <<Piece(TRUE, CriticalText)>>

-----------------------------------------------------------------------------
(* C10 *)

\* C10 as claimed: cancel() changes no record; without a handle it returns
\* Ignored and signals nothing; with a handle it signals the child and
\* returns Success.
C10_CancelAlwaysSucceeds ==
    [][cancel_sync =>
          /\ jobs' = jobs
          /\ IF active_process = None
             THEN response'.status = "ignored" /\ children' = children
             ELSE response'.status = "success"]_vars

\* C10 as amended: cancel() changes no record, no task and not the handle.
\* Without a handle it returns Ignored and signals nothing.  With a handle
\* whose child was not yet waited for it returns Success and the only effect
\* is the SIGTERM sent to that child; with a handle whose child was already
\* waited for it returns Error and signals nothing.
C10_CancelFrame ==
    [][cancel_sync =>
          /\ jobs' = jobs
          /\ nextId' = nextId
          /\ runs' = runs
          /\ active_process' = active_process
          /\ IF active_process = None
             THEN response'.status = "ignored" /\ children' = children
             ELSE IF children[active_process].reaped
             THEN response'.status = "error" /\ children' = children
             ELSE /\ response'.status = "success"
                  /\ children' = [children EXCEPT ![active_process].sigterm =
                                     children'[active_process].sigterm]]_vars

\* cancel() returned Success, the signal is pending on a live child, and the
\* job's record is still RUNNING.
C10_Witness ==
    /\ response.op = "cancel" /\ response.status = "success"
    /\ active_process # None
    /\ children[active_process].alive /\ children[active_process].sigterm
    /\ active_process \in RunningIds

-----------------------------------------------------------------------------
(* C11 *)

\* C11: when start() returned Started for a job, cancel() signalled its child
\* and the child was terminated by SIGTERM, the job's record gets no terminal
\* status other than CANCELLED (with end_time set).
C11_CancelledAfterSigterm ==
    \A j \in DOMAIN jobs \cap DOMAIN children :
        (~children[j].alive /\ children[j].status = -SIGTERM /\ IsTerminal(jobs[j])) =>
            jobs[j].status = "CANCELLED" /\ jobs[j].end_time # NULL

-----------------------------------------------------------------------------
(* C12 *)

-----------------------------------------------------------------------------
(* C13 *)

\* The lines that state a termination status: 'Exit code: ' and the exit code
\* or the negated signal number.
ExitLines ==
    {<<Piece(TRUE, ExitCodeText(ToString(st)))>> : st \in OwnStatuses \cup {-SIGTERM}}

\* C13: the last line of every terminal record states the child's exit code
\* or the signal that ended it, and the logs of a COMPLETED record begin with
\* the banner and end with 'Exit code: 0'.
C13_TrailingExitLine ==
    \A id \in DOMAIN jobs :
        /\ IsTerminal(jobs[id]) => LastLine(jobs[id]) \in ExitLines
        /\ jobs[id].status = "COMPLETED" =>
              /\ Lines(jobs[id].logs)[1] = <<initial_log[1]>>
              /\ LastLine(jobs[id]) = <<Piece(TRUE, ExitCodeText("0"))>>

-----------------------------------------------------------------------------
(* C14 *)

\* The logs text made of the banner and the given stamped lines.
RECURSIVE LogText(_)
LogText(texts) ==
    IF texts = <<>> THEN initial_log
    ELSE LogText(SubSeq(texts, 1, Len(texts) - 1)) \o LogLine(texts[Len(texts)])

\* The output of the child the run of job j launched, if it launched one.
OwnOutput(j) == IF j \in DOMAIN children THEN children[j].emitted ELSE <<>>

\* C14: while the run of a job has not returned, the job's logs are the
\* banner, then a prefix of the non-empty stripped lines its child wrote, in
\* order, then the final line if the status is terminal; and no step changes
\* the logs of a record other than by appending.
C14_LogsFollowOutput ==
    /\ [](\A j \in DOMAIN jobs \cap DOMAIN runs :
            runs[j].pc # "done" =>
                LET texts == StampedTexts(jobs[j].logs)
                    body == IF IsTerminal(jobs[j])
                            THEN SubSeq(texts, 1, Len(texts) - 1)
                            ELSE texts
                IN  /\ jobs[j].logs = LogText(texts)
                    /\ IsTerminal(jobs[j]) => Len(texts) >= 1
                    /\ IsPrefix(body, NonEmptyLines(OwnOutput(j))))
    /\ [][\A id \in DOMAIN jobs \cap DOMAIN jobs' :
            IsPrefix(jobs[id].logs, jobs'[id].logs)]_vars



-----------------------------------------------------------------------------
(* C15 *)

\* C15: as long as the last answered request is clear-history (no start()
\* since), the table is empty and both status queries return the empty
\* answers, whatever the tasks of deleted records wrote meanwhile; and a
\* record only ever appears in the step in which start() answers "started".
C15_ClearHistoryEmpties ==
    /\ [](response.op = "clear-history" =>
            /\ jobs = <<>>
            /\ StatusBody(FALSE) = IdleBody
            /\ StatusBody(TRUE) = <<>>)
    /\ [][DOMAIN jobs' \subseteq DOMAIN jobs
            \/ (response'.op = "sync" /\ response'.status = "started"
                /\ DOMAIN jobs' = DOMAIN jobs \cup {response'.job_id})]_vars

\* The history was cleared while job 1 was streaming; its task has since read
\* a line of output, written its final line and status, and the table is
\* still empty.
C15_Witness ==
    /\ response.op = "clear-history"
    /\ jobs = <<>>
    /\ 1 \in DOMAIN runs /\ runs[1].pc = "finally"
    /\ 1 \in DOMAIN children /\ children[1].nread = 1

-----------------------------------------------------------------------------
(* C16 *)

\* C16: from the launch of job j's child until job j's task returns, the
\* global handle names job j's child: no other task overwrites or clears it.
C16_HandleOwned ==
    \A j \in Supervised : active_process = j

-----------------------------------------------------------------------------
(* C17 *)

\* The tasks between their first statement's effect and their return.
InProgress == {j \in DOMAIN runs : runs[j].pc \notin {"queued", "done"}}

\* C17: the step in which a task returns leaves the handle empty; whenever no
\* task is in progress the handle is empty, and a cancel() answered in such a
\* state answers "ignored".
C17_HandleReleased ==
    /\ [](InProgress = {} => active_process = None)
    /\ [][\A j \in DOMAIN runs \cap DOMAIN runs' :
            (runs[j].pc = "finally" /\ runs'[j].pc = "done") =>
                active_process' = None]_vars
    /\ [][(InProgress = {} /\ response'.op = "cancel" /\ response' # response) =>
            response'.status = "ignored"]_vars

\* The only task there is has returned after its child was cancelled, and a
\* later cancel() was answered "ignored".
C17_Witness ==
    /\ DOMAIN runs = {1} /\ runs[1].pc = "done"
    /\ 1 \in DOMAIN jobs /\ jobs[1].status = "CANCELLED"
    /\ active_process = None
    /\ response.op = "cancel" /\ response.status = "ignored"

-----------------------------------------------------------------------------
(* C18 *)

\* C18: whenever a record is RUNNING the handle is held and names that job's
\* child, not yet waited for, so that cancel() would signal it rather than
\* answer "ignored" or "error".
C18_RunningHoldsHandle ==
    \A id \in RunningIds :
        /\ active_process = id
        /\ id \in DOMAIN children
        /\ ~children[id].reaped

-----------------------------------------------------------------------------
(* C19 *)

\* The status the if/elif/else of run_rclone_sync gives a returncode.
MappedStatus(st) ==
    IF st = 0 THEN "COMPLETED"
    ELSE IF st < 0 THEN "CANCELLED"
    ELSE "FAILED"

\* C19: a task past its launch never goes to the except clause from the loop
\* header, the wait, the comparisons or the final write; and when it does the
\* final write its own child has been waited for, and the status and the
\* exit code it writes are those of its own child.
C19_OwnExitStatus ==
    [][\A j \in DOMAIN runs \cap DOMAIN runs' :
         /\ runs[j].pc \in {"loop", "wait", "check0", "checkneg", "write"} =>
                runs'[j].pc # "except"
         /\ (runs[j].pc = "write" /\ runs'[j].pc = "finally") =>
                /\ children[j].reaped
                /\ runs[j].final_status = MappedStatus(children[j].status)
                /\ ReturncodeStr(children[active_process]) =
                       ToString(children[j].status)]_vars

-----------------------------------------------------------------------------
(* C20 *)

\* C20: under the fair scheduling of the tasks and with children that exit,
\* every record that is RUNNING is eventually terminal or deleted.
C20_NoRunningForever ==
    \A id \in 1..MaxJobs :
        (id \in RunningIds) ~> (id \notin DOMAIN jobs \/ IsTerminal(jobs[id]))

\* Job 2 was started after job 1 ended, its child printed a line and was
\* killed from outside, and its task wrote the terminal status and returned.
C20_Witness ==
    /\ DOMAIN jobs = {1, 2}
    /\ IsTerminal(jobs[1])
    /\ jobs[2].status = "CANCELLED"
    /\ Len(Lines(jobs[2].logs)) = 3
    /\ DOMAIN runs = {1, 2} /\ runs[1].pc = "done" /\ runs[2].pc = "done"
    /\ response.op = "sync" /\ response.job_id = 2

====
